---- MODULE Spec2Model ----
(***************************************************************************)
(* A model of projects/research_single_question.py (one run of             *)
(* validate_question_by_id, with SaviyntQuestionValidator) and of          *)
(* projects/config/llm_config.py (LLMFactory.create_llm).                  *)
(*                                                                         *)
(* Python values are tagged records [k, n, v]:                             *)
(*   None, int, str, list, dict.  A dict is the sequence of its            *)
(*   (key, value) pairs in insertion order.  A str is the sequence of its  *)
(*   lexical tokens, so that json.loads is a parser over the text and      *)
(*   json.dump a serializer, not the identity.                             *)
(***************************************************************************)
EXTENDS Integers, Sequences, FiniteSets, TLC

(***************************************************************************)
(* Text: a Python str is a sequence of tokens [t, n, c].                   *)
(*   t = "{" "}" "[" "]" ":" "," "null"  JSON punctuation and literal      *)
(*   t = "num"   a JSON number, n its value                                *)
(*   t = "str"   a quoted JSON string literal, c the str it decodes to     *)
(*   any other t a run of plain characters (a word)                        *)
(***************************************************************************)
Tok(t) == [t |-> t, n |-> 0, c |-> <<>>]

NumTok(n) == [t |-> "num", n |-> n, c |-> <<>>]

StrTok(s) == [t |-> "str", n |-> 0, c |-> s]

W(x) == <<Tok(x)>>

(***************************************************************************)
(* Python values.                                                          *)
(***************************************************************************)
None == [k |-> "null", n |-> 0, v |-> <<>>]

IntV(i) == [k |-> "int", n |-> i, v |-> <<>>]

Str(s) == [k |-> "str", n |-> 0, v |-> s]

List(xs) == [k |-> "list", n |-> 0, v |-> xs]

Dict(ps) == [k |-> "dict", n |-> 0, v |-> ps]

KV(key, val) == [key |-> W(key), val |-> val]

isinstance(x, kind) == x.k = kind

\* key in d, for a dict d and a str key
HasKey(d, key) == \E i \in 1..Len(d.v) : d.v[i].key = key

\* d[key]; the caller has checked HasKey
GetItem(d, key) == d.v[CHOOSE i \in 1..Len(d.v) : d.v[i].key = key].val

\* d.get(key): None when the key is absent
DictGet(d, key) == IF HasKey(d, key) THEN GetItem(d, key) ELSE None

RECURSIVE SetPairs(_, _, _, _)
SetPairs(ps, i, key, val) ==
    IF i > Len(ps) THEN <<>>
    ELSE <<IF ps[i].key = key THEN [key |-> key, val |-> val] ELSE ps[i]>>
         \o SetPairs(ps, i + 1, key, val)

\* d[key] = val: an existing key keeps its position, a new key goes last
SetItem(d, key, val) ==
    IF HasKey(d, key) THEN Dict(SetPairs(d.v, 1, key, val))
    ELSE Dict(Append(d.v, [key |-> key, val |-> val]))

RECURSIVE UpdateFrom(_, _, _)
UpdateFrom(d, e, j) ==
    IF j > Len(e.v) THEN d
    ELSE UpdateFrom(SetItem(d, e.v[j].key, e.v[j].val), e, j + 1)

\* d.update(e) for dicts d and e
DictUpdate(d, e) == UpdateFrom(d, e, 1)

\* copy.deepcopy: an equal value that shares nothing with its argument;
\* values here have no identity, so the copy is the value
deepcopy(x) == x

(***************************************************************************)
(* json.loads: a recursive-descent parser over the tokens of the text.     *)
(* It fails (JSONDecodeError) on an empty text, on a token that starts no  *)
(* value, on an unclosed or ill-separated list or object, and on text      *)
(* left over after the value.  A repeated key keeps its last value.        *)
(***************************************************************************)
ParseFail == [ok |-> FALSE, val |-> None, next |-> 0]

ParseOk(val, next) == [ok |-> TRUE, val |-> val, next |-> next]

RECURSIVE ParseValue(_, _)
RECURSIVE ParseItems(_, _, _)
RECURSIVE ParseMembers(_, _, _)

ParseItems(s, i, acc) ==
    LET r == ParseValue(s, i) IN
    IF ~r.ok \/ r.next > Len(s) THEN ParseFail
    ELSE IF s[r.next].t = "," THEN ParseItems(s, r.next + 1, Append(acc, r.val))
    ELSE IF s[r.next].t = "]" THEN ParseOk(List(Append(acc, r.val)), r.next + 1)
    ELSE ParseFail

ParseMembers(s, i, acc) ==
    IF i + 1 > Len(s) \/ s[i].t # "str" \/ s[i + 1].t # ":" THEN ParseFail
    ELSE LET r == ParseValue(s, i + 2) IN
         IF ~r.ok \/ r.next > Len(s) THEN ParseFail
         ELSE LET d == SetItem(acc, s[i].c, r.val) IN
              IF s[r.next].t = "," THEN ParseMembers(s, r.next + 1, d)
              ELSE IF s[r.next].t = "}" THEN ParseOk(d, r.next + 1)
              ELSE ParseFail

ParseValue(s, i) ==
    IF i > Len(s) THEN ParseFail
    ELSE CASE s[i].t = "null" -> ParseOk(None, i + 1)
           [] s[i].t = "num" -> ParseOk(IntV(s[i].n), i + 1)
           [] s[i].t = "str" -> ParseOk(Str(s[i].c), i + 1)
           [] s[i].t = "[" ->
                IF i + 1 <= Len(s) /\ s[i + 1].t = "]"
                THEN ParseOk(List(<<>>), i + 2)
                ELSE ParseItems(s, i + 1, <<>>)
           [] s[i].t = "{" ->
                IF i + 1 <= Len(s) /\ s[i + 1].t = "}"
                THEN ParseOk(Dict(<<>>), i + 2)
                ELSE ParseMembers(s, i + 1, Dict(<<>>))
           [] OTHER -> ParseFail

\* json.loads(text): [ok, val]; ok = FALSE is json.JSONDecodeError
json_loads(text) ==
    LET r == ParseValue(text, 1) IN
    IF r.ok /\ r.next = Len(text) + 1
    THEN [ok |-> TRUE, val |-> r.val]
    ELSE [ok |-> FALSE, val |-> None]

(***************************************************************************)
(* json.dump / json.dumps: the text of a value.                            *)
(***************************************************************************)
RECURSIVE json_dumps(_)
RECURSIVE DumpItems(_, _)
RECURSIVE DumpMembers(_, _)

DumpItems(xs, i) ==
    IF i > Len(xs) THEN <<>>
    ELSE (IF i > 1 THEN <<Tok(",")>> ELSE <<>>)
         \o json_dumps(xs[i]) \o DumpItems(xs, i + 1)

DumpMembers(ps, i) ==
    IF i > Len(ps) THEN <<>>
    ELSE (IF i > 1 THEN <<Tok(",")>> ELSE <<>>)
         \o <<StrTok(ps[i].key), Tok(":")>> \o json_dumps(ps[i].val)
         \o DumpMembers(ps, i + 1)

json_dumps(x) ==
    CASE x.k = "null" -> <<Tok("null")>>
      [] x.k = "int" -> <<NumTok(x.n)>>
      [] x.k = "str" -> <<StrTok(x.v)>>
      [] x.k = "list" -> <<Tok("[")>> \o DumpItems(x.v, 1) \o <<Tok("]")>>
      [] x.k = "dict" -> <<Tok("{")>> \o DumpMembers(x.v, 1) \o <<Tok("}")>>

(***************************************************************************)
(* LLMFactory.MODELS and LLMFactory.create_llm.                            *)
(***************************************************************************)
MODELS ==
    {"gpt-4o", "deepseek-chat", "mistral-7b-v02", "llama-3-70b", "qwen-72b",
     "sonar-medium-online", "claude-3.5-sonnet", "claude-3.7-sonnet"}

create_llm_no_lookup(model_name) == FALSE

\* create_llm raises ValueError exactly when the name is no key of MODELS
create_llm_raises_unknown(model_name) == model_name \notin MODELS

(***************************************************************************)
(* SaviyntQuestionValidator.validate_question.                             *)
(***************************************************************************)
required_fields ==
    <<"id", "question", "options", "answer", "type", "explanation", "reference">>

\* all(field in d for field in required_fields)
all_required_in(d) ==
    \A i \in 1..Len(required_fields) : HasKey(d, W(required_fields[i]))

\* Lines 65-180 raise before the agent is built: question['question'],
\* ['type'], ['answer'], ['options'] are subscripted (KeyError), .lower()
\* needs a str, and question.get('reference', {}).get('url') needs a dict
\* whenever the key is present (AttributeError).
build_task_raises(question) ==
    \/ ~HasKey(question, W("question"))
    \/ ~isinstance(GetItem(question, W("question")), "str")
    \/ /\ HasKey(question, W("reference"))
       /\ ~isinstance(GetItem(question, W("reference")), "dict")
    \/ ~HasKey(question, W("type"))
    \/ ~HasKey(question, W("answer"))
    \/ ~HasKey(question, W("options"))

\* An agent result: kind "raise" (agent.run raised), "none" (returned None),
\* "nofinal" (an object without final_result, such as a plain str), or
\* "final" with text = what final_result() returns (None or a str).
AgentResult(kind, text) == [kind |-> kind, text |-> text]

\* not json_str (line 203)
falsy(json_str) == isinstance(json_str, "null") \/ json_str.v = <<>>

\* How the try block of lines 192-241 ends:
\*   exit = "raise"   an exception leaves validate_question
\*   exit = "return"  a return statement inside the block
\*   exit = "fall"    control reaches line 243
\* ret is validated_question as it then stands.
Outcome(exit, path, ret) == [exit |-> exit, path |-> path, ret |-> ret]

decode_options_keep_string(response_data) == [ok |-> TRUE, data |-> response_data]

\* Lines 211-217: options given as a str is parsed as JSON in its turn
decode_options(response_data) ==
    LET options == DictGet(response_data, W("options")) IN
    IF isinstance(options, "str")
    THEN LET q == json_loads(options.v) IN
         IF q.ok
         THEN [ok |-> TRUE, data |-> SetItem(response_data, W("options"), q.val)]
         ELSE [ok |-> FALSE, data |-> response_data]
    ELSE [ok |-> TRUE, data |-> response_data]

apply_response_update_first(validated_question, response_data) ==
    IF ~all_required_in(response_data)
    THEN Outcome("fall", "value_error", DictUpdate(validated_question, response_data))
    ELSE IF ~isinstance(GetItem(response_data, W("options")), "list")
    THEN Outcome("fall", "value_error", DictUpdate(validated_question, response_data))
    ELSE Outcome("fall", "updated", DictUpdate(validated_question, response_data))

\* Lines 219-230: the two checks (ValueError, caught at line 235), then
\* validated_question.update(response_data)
apply_response(validated_question, response_data) ==
    IF ~all_required_in(response_data)
    THEN Outcome("fall", "value_error", validated_question)
    ELSE IF ~isinstance(GetItem(response_data, W("options")), "list")
    THEN Outcome("fall", "value_error", validated_question)
    ELSE Outcome("fall", "updated", DictUpdate(validated_question, response_data))

\* The markdown convention of the specification's fallback parse: a labelled
\* Explanation block up to a Reference label, then Document and URL lines,
\* the URL being the target in a link's parentheses.  The source has no
\* such parse; these operators state what one would extract.
first_index(text, t) ==
    IF \E i \in 1..Len(text) : text[i].t = t
    THEN CHOOSE i \in 1..Len(text) :
            text[i].t = t /\ \A j \in 1..(i - 1) : text[j].t # t
    ELSE 0

md_matches(text) ==
    LET e == first_index(text, "**Explanation:**")
        r == first_index(text, "**Reference:**")
        d == first_index(text, "Document:")
        u == first_index(text, "URL:")
        l == first_index(text, "(")
        c == first_index(text, ")")
    IN 0 < e /\ e + 1 < r /\ r < d /\ d + 1 < u /\ u < l /\ l + 1 < c

md_explanation(text) ==
    Str(SubSeq(text, first_index(text, "**Explanation:**") + 1,
               first_index(text, "**Reference:**") - 1))

md_reference(text) ==
    Dict(<<[key |-> W("document"),
            val |-> Str(SubSeq(text, first_index(text, "Document:") + 1,
                               first_index(text, "URL:") - 1))],
           [key |-> W("url"),
            val |-> Str(SubSeq(text, first_index(text, "(") + 1,
                               first_index(text, ")") - 1))]>>)

on_decode_error_markdown(validated_question, json_str) ==
    IF isinstance(json_str, "str") /\ md_matches(json_str.v)
    THEN Outcome("fall", "decode_error",
                 SetItem(SetItem(validated_question, W("explanation"),
                                 md_explanation(json_str.v)),
                         W("reference"), md_reference(json_str.v)))
    ELSE Outcome("fall", "decode_error", validated_question)

\* Lines 232-234: except (json.JSONDecodeError, AttributeError) logs the
\* error and the raw result; validated_question is left as it is
on_decode_error(validated_question, json_str) ==
    Outcome("fall", "decode_error", validated_question)

\* Lines 207-230, json_str a non-empty str
parse_response(validated_question, json_str) ==
    LET p == json_loads(json_str.v) IN
    IF ~p.ok THEN on_decode_error(validated_question, json_str)
    \* response_data.get on a list, str, int or None: AttributeError
    ELSE IF ~isinstance(p.val, "dict")
    THEN on_decode_error(validated_question, json_str)
    ELSE LET o == decode_options(p.val) IN
         IF ~o.ok
         THEN Outcome("return", "options_undecodable", validated_question)
         ELSE apply_response(validated_question, o.data)

\* Lines 239-241: except Exception logs the error, then formats the local
\* variable result, which agent.run never bound: UnboundLocalError leaves
\* the handler and validate_question
on_agent_raise(validated_question) ==
    Outcome("raise", "agent_raised", validated_question)

\* Lines 192-241
run_outcome(validated_question, result) ==
    CASE result.kind = "raise" -> on_agent_raise(validated_question)
      [] result.kind = "none" -> Outcome("return", "none", validated_question)
      \* result.final_result(): AttributeError, caught at line 232
      [] result.kind = "nofinal" -> on_decode_error(validated_question, None)
      [] result.kind = "final" ->
            IF falsy(result.text)
            THEN Outcome("return", "empty", validated_question)
            ELSE parse_response(validated_question, result.text)

\* validate_question from the return of agent.run on: the outcome of the
\* try block and whether line 243 (if self.shutdown) was executed
validate_question(question, result) ==
    LET o == run_outcome(deepcopy(question), result) IN
    [exit |-> o.exit, path |-> o.path, ret |-> o.ret,
     checked |-> (o.exit = "fall")]

(***************************************************************************)
(* The schema gate of validate_question_by_id, lines 325-352.              *)
(***************************************************************************)
\* field in container (line 335), by the container's type: a key of a dict,
\* an element of a list, a substring of a str (here: one of its words);
\* None and int are not containers (TypeError)
contains_is_container(container) ==
    container.k \in {"dict", "list", "str"}

contains(container, field) ==
    CASE container.k = "dict" -> HasKey(container, W(field))
      [] container.k = "list" ->
            \E i \in 1..Len(container.v) : container.v[i] = Str(W(field))
      [] container.k = "str" ->
            \E i \in 1..Len(container.v) : container.v[i].t = field
      [] OTHER -> FALSE

schema_gate_no_answer_check(validated) ==
    IF ~all_required_in(validated) THEN "missing_fields"
    ELSE LET reference == GetItem(validated, W("reference"))
             options == GetItem(validated, W("options"))
         IN IF ~contains_is_container(reference) THEN "exception"
            ELSE IF ~(contains(reference, "document") /\ contains(reference, "url"))
            THEN "reference_fields"
            ELSE IF ~isinstance(options, "list") THEN "options_not_list"
            ELSE "save"

\* "save", or the check that returned, or "exception" (caught at line 360)
schema_gate(validated) ==
    IF ~all_required_in(validated) THEN "missing_fields"
    ELSE LET reference == GetItem(validated, W("reference"))
             options == GetItem(validated, W("options"))
             type == GetItem(validated, W("type"))
             answer == GetItem(validated, W("answer"))
         IN IF ~contains_is_container(reference) THEN "exception"
            ELSE IF ~(contains(reference, "document") /\ contains(reference, "url"))
            THEN "reference_fields"
            ELSE IF ~isinstance(options, "list") THEN "options_not_list"
            ELSE IF type = Str(W("checkbox"))
            THEN (IF ~isinstance(answer, "list") THEN "answer_not_list" ELSE "save")
            ELSE (IF ~isinstance(answer, "str") THEN "answer_not_str" ELSE "save")

output_data_first_question(exam_data, validated) ==
    Dict(<<KV("name", GetItem(exam_data, W("name"))),
           KV("questions", List(<<GetItem(exam_data, W("questions")).v[1]>>))>>)

\* Lines 320-323; the caller has checked that exam_data has a name
output_data(exam_data, validated) ==
    Dict(<<KV("name", GetItem(exam_data, W("name"))),
           KV("questions", List(<<validated>>))>>)

\* json.dump failing part-way leaves the part already written
truncated(text) == SubSeq(text, 1, Len(text) \div 2)

(***************************************************************************)
(* Loading the exam and finding the question, lines 284-307.               *)
(***************************************************************************)
Found(exit, q) == [exit |-> exit, q |-> q]

RECURSIVE scan_questions(_, _, _)
scan_questions(qs, i, question_id) ==
    IF i > Len(qs) THEN Found("none", None)
    \* q.get on anything but a dict: AttributeError
    ELSE IF ~isinstance(qs[i], "dict") THEN Found("raise", None)
    ELSE IF DictGet(qs[i], W("id")) = IntV(question_id) THEN Found("found", qs[i])
    ELSE scan_questions(qs, i + 1, question_id)

\* Line 303: next((q for q in exam_data.get('questions', []) if
\* q.get('id') == question_id), None), then line 305: if not question
find_question(exam_data, question_id) ==
    IF ~isinstance(exam_data, "dict") THEN Found("raise", None)
    ELSE IF ~HasKey(exam_data, W("questions")) THEN Found("none", None)
    ELSE LET qs == GetItem(exam_data, W("questions")) IN
         IF isinstance(qs, "list") THEN scan_questions(qs.v, 1, question_id)
         \* an empty dict or str yields nothing; their items have no .get;
         \* None and int are not iterable
         ELSE IF qs.k \in {"dict", "str"} /\ qs.v = <<>> THEN Found("none", None)
         ELSE Found("raise", None)

(***************************************************************************)
(* Inputs: question records, exam files, agent results.                    *)
(***************************************************************************)
S(x) == Str(W(x))

Ref(document, url) == Dict(<<KV("document", S(document)), KV("url", S(url))>>)

Question(id, type, answer, explanation, reference) ==
    Dict(<<KV("id", IntV(id)), KV("question", S("what?")),
           KV("options", List(<<S("A"), S("B")>>)), KV("answer", answer),
           KV("type", S(type)), KV("explanation", explanation),
           KV("reference", reference)>>)

RECURSIVE DropPairs(_, _, _)
DropPairs(ps, i, key) ==
    IF i > Len(ps) THEN <<>>
    ELSE (IF ps[i].key = key THEN <<>> ELSE <<ps[i]>>) \o DropPairs(ps, i + 1, key)

Without(d, key) == Dict(DropPairs(d.v, 1, W(key)))

AB == List(<<S("A"), S("B")>>)

Questions ==
    << Question(7, "radio", S("A"), S("old"), Ref("Doc", "U")),
       Question(7, "checkbox", AB, S("old"), Ref("Doc", "U")),
       \* the record of the spec's concrete scenario: no explanation, url only
       Without(Question(7, "radio", S("A"), None, Dict(<<KV("url", S("U"))>>)),
               "explanation"),
       Question(7, "multiple", S("A"), S("old"), Ref("Doc", "U")),
       Question(7, "multiple", AB, S("old"), Ref("Doc", "U")),
       Question(7, "single", AB, S("old"), Ref("Doc", "U")),
       Question(7, "radio", AB, S("old"), Ref("Doc", "U")),
       Question(7, "checkbox", S("A"), S("old"), Ref("Doc", "U")),
       Without(Question(7, "radio", S("A"), S("old"), Ref("Doc", "U")), "question"),
       Without(Question(7, "radio", S("A"), S("old"), None), "reference"),
       Question(7, "radio", S("A"), S("old"), None),
       Question(7, "radio", S("A"), S("old"), Dict(<<KV("document", S("Doc"))>>)) >>

Other == Question(8, "radio", S("B"), S("other"), Ref("Doc8", "U8"))

Exam(qs) == Dict(<<KV("name", S("Exam")), KV("questions", List(qs))>>)

File(exists, text) == [exists |-> exists, text |-> text]

ExamFiles ==
    [i \in 1..Len(Questions) |-> File(TRUE, json_dumps(Exam(<<Other, Questions[i]>>)))]
    \o << File(FALSE, <<>>),
          \* cut short: invalid JSON
          File(TRUE, truncated(json_dumps(Exam(<<Other, Questions[1]>>)))),
          File(TRUE, json_dumps(Without(Exam(<<Questions[1]>>), "name"))),
          File(TRUE, json_dumps(Without(Exam(<<Questions[1]>>), "questions"))),
          File(TRUE, json_dumps(List(<<Questions[1]>>))),
          File(TRUE, json_dumps(Exam(<<S("text"), Questions[1]>>))) >>

Response(id, type, options, answer, explanation, reference) ==
    Dict(<<KV("id", IntV(id)), KV("question", S("What?")),
           KV("options", options), KV("answer", answer), KV("type", S(type)),
           KV("explanation", explanation), KV("reference", reference)>>)

ABC == List(<<S("A"), S("B"), S("C")>>)

Full == Response(7, "radio", ABC, S("B"), S("new"), Ref("Doc2", "U2"))

\* the markdown convention: a labelled Explanation block, then a Reference
\* block with Document and URL lines, the URL in a link's parentheses
Markdown ==
    << Tok("**Explanation:**"), Tok("new"), Tok("**Reference:**"),
       Tok("Document:"), Tok("Doc2"), Tok("URL:"), Tok("["), Tok("link"),
       Tok("]"), Tok("("), Tok("U2"), Tok(")") >>

FinalTexts ==
    << json_dumps(Full),
       json_dumps(Response(7, "checkbox", ABC, List(<<S("A"), S("C")>>), S("new"),
                            Ref("Doc2", "U2"))),
       \* options double-encoded: a str holding the JSON text of a list
       json_dumps(Response(7, "radio", Str(json_dumps(ABC)), S("B"), S("new"),
                            Ref("Doc2", "U2"))),
       \* options a str that is no JSON text
       json_dumps(Response(7, "radio", Str(truncated(json_dumps(ABC))), S("B"),
                            S("new"), Ref("Doc2", "U2"))),
       json_dumps(Response(7, "radio", S("A, B"), S("B"), S("new"),
                            Ref("Doc2", "U2"))),
       \* options a str holding the JSON text of a str
       json_dumps(Response(7, "radio", Str(json_dumps(S("A"))), S("B"), S("new"),
                            Ref("Doc2", "U2"))),
       json_dumps(Response(7, "radio", IntV(3), S("B"), S("new"), Ref("Doc2", "U2"))),
       json_dumps(Without(Full, "reference")),
       json_dumps(Without(Full, "id")),
       json_dumps(Response(7, "radio", ABC, S("B"), None, Ref("Doc2", "U2"))),
       json_dumps(Response(7, "radio", ABC, S("B"), S("new"), None)),
       json_dumps(Response(7, "radio", ABC, S("B"), S("new"),
                            Str(<<Tok("see"), Tok("document"), Tok("at"), Tok("url"),
                                  Tok("U2")>>))),
       json_dumps(Response(7, "radio", ABC, S("B"), S("new"),
                            Dict(<<KV("url", S("U2"))>>))),
       json_dumps(Response(7, "multiple", ABC, S("B"), S("new"), Ref("Doc2", "U2"))),
       json_dumps(Response(7, "checkbox", ABC, S("B"), S("new"), Ref("Doc2", "U2"))),
       json_dumps(SetItem(Response(99, "radio", ABC, S("B"), S("new"),
                                   Ref("Doc2", "U2")), W("notes"), S("extra"))),
       Markdown,
       \* the JSON object inside a markdown code fence
       <<Tok("~~~json")>> \o json_dumps(Full) \o <<Tok("~~~")>>,
       json_dumps(Full) \o <<Tok("Done.")>>,
       json_dumps(List(<<Full>>)),
       json_dumps(S("done")) >>

AgentResults ==
    << AgentResult("raise", None), AgentResult("none", None),
       AgentResult("nofinal", None), AgentResult("final", None),
       AgentResult("final", Str(<<>>)) >>
    \o [i \in 1..Len(FinalTexts) |-> AgentResult("final", Str(FinalTexts[i]))]

ModelNames == {"gpt-4o", "deepseek-chat", "gpt-5"}

QuestionIds == {7, 8}

\* signals delivered during one run
MaxSignals == 1

(***************************************************************************)
(* One run.  entry = "cli" starts at the __main__ block, entry = "call"    *)
(* at a call of validate_question_by_id.  events is the history of what    *)
(* the run has done, in order.                                             *)
(***************************************************************************)
VARIABLES
    pc,           \* where the run stands
    entry,        \* "cli" or "call"
    model_name,   \* --model / model_name
    question_id,  \* question_id
    examFile,     \* projects/sav-iga-l200b.json
    logger,       \* the local logger of validate_question_by_id is bound
    validator,    \* the local validator is not None
    handlers,     \* the loop has the SIGINT/SIGTERM handlers
    sent,         \* signals delivered so far
    pending,      \* signals delivered whose handler has not run yet
    shutdown,     \* validator.shutdown
    exam_data,    \* exam_data
    question,     \* question
    result,       \* what agent.run did
    path,         \* how validate_question ended
    validated,    \* validated
    outFile,      \* validated_question_<id>.json: state and text
    events        \* history

vars ==
    <<pc, entry, model_name, question_id, examFile, logger, validator, handlers,
      sent, pending, shutdown, exam_data, question, result, path, validated,
      outFile, events>>

Did(e) == \E i \in 1..Len(events) : events[i] = e

Count(e) == Cardinality({i \in 1..Len(events) : events[i] = e})

\* e happened, and before the first f if f happened at all
Before(e, f) ==
    \E i \in 1..Len(events) :
        /\ events[i] = e
        /\ \A j \in 1..i : events[j] # f

Init ==
    /\ entry \in {"cli", "call"}
    /\ pc = IF entry = "cli" THEN "main" ELSE "configure_logging"
    /\ model_name \in ModelNames
    /\ question_id \in QuestionIds
    /\ \E i \in 1..Len(ExamFiles) : examFile = ExamFiles[i]
    /\ logger = FALSE
    /\ validator = FALSE
    /\ handlers = FALSE
    /\ sent = 0
    /\ pending = 0
    /\ shutdown = FALSE
    /\ exam_data = None
    /\ question = None
    /\ result = AgentResult("pending", None)
    /\ path = "pending"
    /\ validated = None
    /\ outFile = [state |-> "absent", text |-> <<>>]
    /\ events = <<>>

\* Lines 375-415: argparse admits only the keys of MODELS (choices=), and
\* exits before anything else is done; then the log file handler is made
\* and validate_question_by_id run
Main ==
    /\ pc = "main"
    /\ IF model_name \notin MODELS
       THEN /\ pc' = "exit"
            /\ events' = Append(events, "usage_error")
       ELSE /\ pc' = "configure_logging"
            /\ events' = Append(events, "log_file")
    /\ UNCHANGED <<entry, model_name, question_id, examFile, logger, validator,
                   handlers, sent, pending, shutdown, exam_data, question, result,
                   path, validated, outFile>>

\* Lines 257-266: logging.FileHandler opens the log file.  When it raises,
\* the handler of line 364 and the finally block use logger, which is not
\* bound yet: the coroutine ends with UnboundLocalError.
ConfigureLogging ==
    /\ pc = "configure_logging"
    /\ \E ok \in BOOLEAN :
        IF ok
        THEN /\ logger' = TRUE
             /\ events' = Append(events, "log_file")
             /\ pc' = "construct"
        ELSE /\ logger' = logger
             /\ events' = Append(events, "log_file_error")
             /\ pc' = "crashed"
    /\ UNCHANGED <<entry, model_name, question_id, examFile, validator, handlers,
                   sent, pending, shutdown, exam_data, question, result, path,
                   validated, outFile>>

\* Lines 268-272 and 23-44: the Browser is made first, then the LLM.  When
\* create_llm raises (unknown name, or ChatOpenAI refusing) the assignment
\* to validator never happens; line 364 logs the error.
Construct ==
    /\ pc = "construct"
    /\ \E chat_ok \in BOOLEAN :
        IF create_llm_raises_unknown(model_name)
        THEN /\ events' = events \o <<"browser_new", "config_error", "error">>
             /\ pc' = "finally"
             /\ validator' = FALSE
        ELSE IF ~chat_ok
        THEN /\ events' = events \o <<"browser_new", "llm_error", "error">>
             /\ pc' = "finally"
             /\ validator' = FALSE
        ELSE /\ events' = events \o <<"browser_new", "llm_new">>
             /\ pc' = "register"
             /\ validator' = TRUE
    /\ shutdown' = FALSE
    /\ UNCHANGED <<entry, model_name, question_id, examFile, logger, handlers,
                   sent, pending, exam_data, question, result, path, validated,
                   outFile>>

\* Lines 274-282
RegisterHandlers ==
    /\ pc = "register"
    /\ handlers' = TRUE
    /\ pc' = "load"
    /\ events' = Append(events, "handlers")
    /\ UNCHANGED <<entry, model_name, question_id, examFile, logger, validator,
                   sent, pending, shutdown, exam_data, question, result, path,
                   validated, outFile>>

\* Lines 284-300
LoadQuestions ==
    /\ pc = "load"
    /\ IF ~examFile.exists
       THEN /\ events' = Append(events, "file_error")
            /\ exam_data' = exam_data
            /\ pc' = "finally"
       ELSE LET r == json_loads(examFile.text) IN
            IF ~r.ok
            THEN /\ events' = events \o <<"exam_read", "file_error">>
                 /\ exam_data' = exam_data
                 /\ pc' = "finally"
            ELSE /\ events' = Append(events, "exam_read")
                 /\ exam_data' = r.val
                 /\ pc' = "find"
    /\ UNCHANGED <<entry, model_name, question_id, examFile, logger, validator,
                   handlers, sent, pending, shutdown, question, result, path,
                   validated, outFile>>

\* Lines 302-307; an exception goes to line 364
FindQuestion ==
    /\ pc = "find"
    /\ LET f == find_question(exam_data, question_id) IN
       CASE f.exit = "raise" ->
                /\ events' = Append(events, "error")
                /\ question' = question
                /\ pc' = "finally"
         [] f.exit = "none" ->
                /\ events' = Append(events, "not_found")
                /\ question' = question
                /\ pc' = "finally"
         [] f.exit = "found" ->
                /\ events' = events
                /\ question' = f.q
                /\ pc' = "validate"
    /\ UNCHANGED <<entry, model_name, question_id, examFile, logger, validator,
                   handlers, sent, pending, shutdown, exam_data, result, path,
                   validated, outFile>>

\* Lines 309-311 and 64-193, up to the await of agent.run; what the
\* prompt's f-string raises is caught at line 315
StartValidation ==
    /\ pc = "validate"
    /\ IF build_task_raises(question)
       THEN /\ events' = Append(events, "validation_error")
            /\ pc' = "finally"
       ELSE /\ events' = Append(events, "agent_start")
            /\ pc' = "agent_running"
    /\ UNCHANGED <<entry, model_name, question_id, examFile, logger, validator,
                   handlers, sent, pending, shutdown, exam_data, question, result,
                   path, validated, outFile>>

\* Lines 193-247 and 311-317: agent.run ends, validate_question runs to its
\* end without another await; an exception leaving it is caught at line 315
AgentReturns ==
    /\ pc = "agent_running"
    /\ \E i \in 1..Len(AgentResults) :
        LET r == AgentResults[i]
            o == validate_question(question, r)
        IN /\ result' = r
           /\ path' = o.path
           /\ events' = events
                  \o <<IF r.kind = "raise" THEN "agent_raise" ELSE "agent_return">>
                  \o (IF o.checked THEN <<"flag_read">> ELSE <<>>)
                  \o (IF o.exit = "raise" THEN <<"validation_error">> ELSE <<>>)
           /\ IF o.exit = "raise"
              THEN /\ validated' = validated
                   /\ pc' = "finally"
              ELSE /\ validated' = o.ret
                   /\ pc' = "gate"
    /\ UNCHANGED <<entry, model_name, question_id, examFile, logger, validator,
                   handlers, sent, pending, shutdown, exam_data, question, outFile>>

\* Lines 319-352: exam_data['name'] (KeyError goes to line 364), then the
\* schema checks
SchemaGate ==
    /\ pc = "gate"
    /\ IF ~HasKey(exam_data, W("name"))
       THEN /\ events' = Append(events, "error")
            /\ pc' = "finally"
       ELSE LET g == schema_gate(validated) IN
            IF g = "save"
            THEN /\ events' = events \o <<"gate", "gate_pass">>
                 /\ pc' = "save"
            ELSE /\ events' = events \o <<"gate", "gate_reject">>
                 /\ pc' = "finally"
    /\ UNCHANGED <<entry, model_name, question_id, examFile, logger, validator,
                   handlers, sent, pending, shutdown, exam_data, question, result,
                   path, validated, outFile>>

\* Lines 354-362: open(output_file, 'w') and json.dump; either may raise
\* (caught at line 360)
Save ==
    /\ pc = "save"
    /\ LET text == json_dumps(output_data(exam_data, validated)) IN
       \E w \in {"ok", "open_fails", "dump_fails"} :
        CASE w = "ok" ->
                /\ outFile' = [state |-> "complete", text |-> text]
                /\ events' = events \o <<"file_open", "file_written">>
          [] w = "open_fails" ->
                /\ outFile' = outFile
                /\ events' = Append(events, "save_error")
          [] w = "dump_fails" ->
                /\ outFile' = [state |-> "truncated", text |-> truncated(text)]
                /\ events' = events \o <<"file_open", "save_error">>
    /\ pc' = "finally"
    /\ UNCHANGED <<entry, model_name, question_id, examFile, logger, validator,
                   handlers, sent, pending, shutdown, exam_data, question, result,
                   path, validated>>

\* Lines 366-370 and 46-50: cleanup awaits browser.close() if there is a
\* validator
Finally ==
    /\ pc = "finally"
    /\ IF validator
       THEN /\ events' = Append(events, "browser_close")
            /\ pc' = "closing"
       ELSE /\ events' = events
            /\ pc' = "done"
    /\ UNCHANGED <<entry, model_name, question_id, examFile, logger, validator,
                   handlers, sent, pending, shutdown, exam_data, question, result,
                   path, validated, outFile>>

\* Lines 50-51 and 370-373: browser.close() returns or raises (caught at
\* line 371)
CloseReturns ==
    /\ pc = "closing"
    /\ \E ok \in BOOLEAN :
        events' = Append(events, IF ok THEN "cleanup_complete" ELSE "cleanup_error")
    /\ pc' = "done"
    /\ UNCHANGED <<entry, model_name, question_id, examFile, logger, validator,
                   handlers, sent, pending, shutdown, exam_data, question, result,
                   path, validated, outFile>>

\* SIGINT or SIGTERM is delivered while the loop has the handlers; the loop
\* runs the callback when the coroutine next awaits
Signal ==
    /\ handlers
    /\ pc \notin {"done", "exit", "crashed"}
    /\ sent < MaxSignals
    /\ sent' = sent + 1
    /\ pending' = pending + 1
    /\ UNCHANGED <<pc, entry, model_name, question_id, examFile, logger, validator,
                   handlers, shutdown, exam_data, question, result, path,
                   validated, outFile, events>>

SignalHandler_aborts ==
    /\ pending > 0
    /\ pc \in {"agent_running", "closing"}
    /\ pending' = pending - 1
    /\ shutdown' = TRUE
    /\ pc' = IF pc = "agent_running" THEN "finally" ELSE pc
    /\ UNCHANGED <<entry, model_name, question_id, examFile, logger, validator,
                   handlers, sent, exam_data, question, result, path, validated,
                   outFile, events>>

\* Lines 275-277: signal_handler, run by the loop while the coroutine is
\* suspended in agent.run() or in browser.close()
SignalHandler ==
    /\ pending > 0
    /\ pc \in {"agent_running", "closing"}
    /\ pending' = pending - 1
    /\ shutdown' = TRUE
    /\ UNCHANGED <<pc, entry, model_name, question_id, examFile, logger, validator,
                   handlers, sent, exam_data, question, result, path, validated,
                   outFile, events>>

Next ==
    \/ Main
    \/ ConfigureLogging
    \/ Construct
    \/ RegisterHandlers
    \/ LoadQuestions
    \/ FindQuestion
    \/ StartValidation
    \/ AgentReturns
    \/ SchemaGate
    \/ Save
    \/ Finally
    \/ CloseReturns
    \/ Signal
    \/ SignalHandler

Spec == Init /\ [][Next]_vars

(***************************************************************************)
(* Properties.                                                             *)
(***************************************************************************)
\* agent.run has returned and validate_question has handed back a record
Returned == result.kind \notin {"pending", "raise"} /\ path # "agent_raised"

\* the agent returned None, or a result whose final text is None or empty
AbsentOrEmpty ==
    result.kind = "none" \/ (result.kind = "final" /\ falsy(result.text))

\* the question records of the output file, as a reader of the file gets them
SavedQuestions ==
    LET r == json_loads(outFile.text) IN
    IF r.ok /\ isinstance(r.val, "dict") /\ HasKey(r.val, W("questions"))
    THEN GetItem(r.val, W("questions")).v
    ELSE <<>>

\* C1 as stated: whenever the agent returns None or an empty final text,
\* validate_question returns the original record and the finished run has
\* saved an output file whose single record is the original.
C1_Original ==
    (AbsentOrEmpty /\ pc = "done") =>
        /\ validated = question
        /\ outFile.state = "complete"
        /\ SavedQuestions = <<question>>

\* C1 amended: whenever the agent returns None or an empty final text,
\* validate_question returns the original record; an output file is saved
\* only if the gate passed the original, and a saved file holds exactly
\* the original record; the finished run has saved one unless the exam has
\* no name, the gate rejected the original or the write failed.
C1_Unchanged ==
    AbsentOrEmpty =>
        /\ validated = question
        /\ path \in {"none", "empty"}
        /\ outFile.state # "absent" => Did("gate_pass")
        /\ outFile.state = "complete" => SavedQuestions = <<question>>
        /\ (pc = "done" /\ outFile.state # "complete") =>
                \/ ~HasKey(exam_data, W("name"))
                \/ Did("gate_reject")
                \/ Did("save_error")

C1_Witness ==
    AbsentOrEmpty /\ pc = "done" /\ outFile.state = "complete"

\* C2 as stated: when agent.run raises, validate_question returns the
\* original record and the run goes on to the schema gate.
C2_Claim ==
    (result.kind = "raise" /\ pc \in {"finally", "closing", "done"}) =>
        /\ validated = question
        /\ Did("gate")

\* C3 as stated: a run that constructed the Browser has closed it exactly
\* once when it ends.
C3_Claim ==
    (pc = "done" /\ Did("browser_new")) => Count("browser_close") = 1

\* the agent's final text is a non-empty str that json.loads rejects and
\* that follows the markdown convention
MarkdownReturned ==
    /\ result.kind = "final"
    /\ ~falsy(result.text)
    /\ ~json_loads(result.text.v).ok
    /\ md_matches(result.text.v)

SameExcept(a, b, keys) ==
    \A i \in 1..Len(required_fields) :
        required_fields[i] \notin keys =>
            DictGet(a, W(required_fields[i])) = DictGet(b, W(required_fields[i]))

\* C4 as stated: when the final text fails strict JSON parsing but follows
\* the markdown convention, the returned record's explanation and reference
\* are those of the text, and its other fields are the original's.
C4_Original ==
    MarkdownReturned =>
        /\ DictGet(validated, W("explanation")) = md_explanation(result.text.v)
        /\ DictGet(validated, W("reference")) = md_reference(result.text.v)
        /\ SameExcept(validated, question, {"explanation", "reference"})

\* C4 amended: when the final text fails strict JSON parsing, following the
\* markdown convention or not, the returned record equals the original in
\* every field, explanation and reference included.
C4_Unchanged ==
    (result.kind = "final" /\ ~falsy(result.text) /\ ~json_loads(result.text.v).ok)
        => (validated = question /\ path = "decode_error")

C4_Witness == MarkdownReturned /\ pc = "gate" /\ validated = question

\* the response object of a final text that is a JSON object with all seven
\* required fields and a str for options
OptionsStrResponse ==
    /\ result.kind = "final"
    /\ ~falsy(result.text)
    /\ json_loads(result.text.v).ok
    /\ isinstance(json_loads(result.text.v).val, "dict")
    /\ all_required_in(json_loads(result.text.v).val)
    /\ isinstance(GetItem(json_loads(result.text.v).val, W("options")), "str")

ResponseData == json_loads(result.text.v).val

OptionsText == GetItem(ResponseData, W("options")).v

\* C5: for a strict JSON object with all seven fields whose options is a
\* str: if the str is the JSON text of a list, the returned record's options
\* is that list and every other field of the response is overlaid; if the
\* str is no JSON text, the returned record equals the original.
C5_DoubleEncoded ==
    OptionsStrResponse =>
        /\ (json_loads(OptionsText).ok /\ isinstance(json_loads(OptionsText).val, "list"))
              => /\ GetItem(validated, W("options")) = json_loads(OptionsText).val
                 /\ isinstance(GetItem(validated, W("options")), "list")
                 /\ \A i \in 1..Len(ResponseData.v) :
                        ResponseData.v[i].key # W("options") =>
                            DictGet(validated, ResponseData.v[i].key)
                                = ResponseData.v[i].val
                 /\ path = "updated"
        /\ ~json_loads(OptionsText).ok
              => (validated = question /\ path = "options_undecodable")

C5_Witness ==
    /\ OptionsStrResponse
    /\ json_loads(OptionsText).ok
    /\ GetItem(validated, W("options")) = ABC
    /\ GetItem(question, W("options")) # ABC
    /\ pc = "gate"

C5_WitnessMalformed ==
    OptionsStrResponse /\ ~json_loads(OptionsText).ok /\ pc = "gate"

\* the record handed to the schema gate
AtGate == Did("gate") /\ isinstance(validated, "dict")

TypeIs(rec, type) == DictGet(rec, W("type")) = S(type)

AnswerIs(rec, kind) ==
    HasKey(rec, W("answer")) /\ isinstance(GetItem(rec, W("answer")), kind)

\* reference is absent or None, or an object without url or without
\* document, or any other value that holds neither
ReferenceLacks(rec) ==
    LET reference == DictGet(rec, W("reference")) IN
    \/ isinstance(reference, "null")
    \/ isinstance(reference, "int")
    \/ /\ isinstance(reference, "dict")
       /\ ~(HasKey(reference, W("url")) /\ HasKey(reference, W("document")))
    \/ /\ reference.k \in {"list", "str"}
       /\ ~(contains(reference, "url") /\ contains(reference, "document"))

Rejected == ~Did("gate_pass") /\ pc # "save" /\ outFile.state = "absent"

SchemaOk(rec) ==
    /\ isinstance(rec, "dict")
    /\ all_required_in(rec)
    /\ isinstance(GetItem(rec, W("reference")), "dict")
    /\ HasKey(GetItem(rec, W("reference")), W("document"))
    /\ HasKey(GetItem(rec, W("reference")), W("url"))
    /\ isinstance(GetItem(rec, W("options")), "list")
    /\ IF TypeIs(rec, "checkbox") THEN AnswerIs(rec, "list") ELSE AnswerIs(rec, "str")

\* C7 as stated: the output file is written only if the final record passes
\* all the schema checks; otherwise no output file is produced.
C7_Claim ==
    (Did("file_open") \/ outFile.state # "absent") => SchemaOk(validated)

NotNull(rec, key) == HasKey(rec, key) /\ ~isinstance(GetItem(rec, key), "null")

\* C8 as stated: the record returned by validate_question has every field
\* of the original, and no field that is non-null in the original is null
\* or missing in it.
C8_Claim ==
    (Returned /\ isinstance(validated, "dict")) =>
        \A i \in 1..Len(question.v) :
            /\ HasKey(validated, question.v[i].key)
            /\ NotNull(question, question.v[i].key)
                  => NotNull(validated, question.v[i].key)

\* the paths of validate_question that leave by a return statement inside
\* the try block (lines 198, 205, 217)
EarlyReturn == path \in {"none", "empty", "options_undecodable"}

\* C9 as stated, its checkpoint: on every path on which agent.run returns,
\* the flag is read once, after the return and before the record is
\* persisted, and never before the return.
C9_Original ==
    /\ Did("flag_read") => Before("agent_return", "flag_read")
    /\ (Did("agent_return") /\ pc \in {"gate", "save", "finally", "closing", "done"})
          => /\ Count("flag_read") = 1
             /\ Did("file_open") => Before("flag_read", "file_open")

\* C9 amended, the state part: the flag is read at most once, only after
\* agent.run has returned and before the record is persisted; it is read on
\* the paths that reach the end of validate_question (response applied, or
\* a parse failure caught) and not on the paths that return early (result
\* None, final text empty, options string undecodable) nor when agent.run
\* raised; the flag is set only while the handlers are registered.
C9_Checkpoint ==
    /\ Count("flag_read") <= 1
    /\ Did("flag_read") => Before("agent_return", "flag_read")
    /\ (Did("flag_read") /\ Did("file_open")) => Before("flag_read", "file_open")
    /\ path \in {"updated", "decode_error", "value_error"} => Did("flag_read")
    /\ (EarlyReturn \/ path \in {"pending", "agent_raised"}) => ~Did("flag_read")
    /\ shutdown => handlers

\* C9 amended, the step part: the flag only ever goes from unset to set, by
\* the handler of a delivered signal, and that step leaves the run where it
\* is: an agent call in flight stays in flight, with no result.
C9_HandlerStep ==
    (shutdown' # shutdown) =>
        /\ shutdown'
        /\ pending > 0 /\ pending' = pending - 1
        /\ UNCHANGED <<pc, result, path, validated, outFile, events>>

\* C9 amended: a signal whose handler runs (the handlers are registered and
\* the coroutine is suspended in agent.run or in browser.close) sets the
\* flag without aborting the agent call in flight; the flag is read at most
\* once, after agent.run has returned and before the record is persisted, on
\* the paths that reach the end of validate_question, and not at all on the
\* paths that return early or when agent.run raised.
C9_Cooperative == []C9_Checkpoint /\ [][C9_HandlerStep]_vars

\* a signal handled during agent.run, the flag read after the return, the
\* record persisted
C9_Witness ==
    /\ shutdown
    /\ Did("flag_read")
    /\ outFile.state = "complete"
    /\ pc = "finally"

C9_WitnessInFlight == shutdown /\ pc = "agent_running"

IoEvents == {"log_file", "browser_new", "exam_read", "file_open", "file_written"}

NoIo == \A i \in 1..Len(events) : events[i] \notin IoEvents

\* C10 as stated: with a model name that is no key of the registry, the run
\* fails with the unknown-model error before any I/O: no log file, no
\* browser, no read of the exam file, no output file.
C10_Original ==
    (model_name \notin MODELS /\ pc \in {"exit", "finally", "done"}) =>
        /\ Did("config_error") \/ Did("usage_error")
        /\ NoIo
        /\ outFile.state = "absent"

\* C10 amended: with a model name that is no key of the registry, the run
\* ends without reading the exam file, starting the agent or writing an
\* output file.  From the command line argparse rejects the name before any
\* I/O.  In a call of validate_question_by_id, create_llm raises its
\* ValueError after the log file has been created and the Browser
\* constructed; the error is caught and logged, and the run ends.
C10_UnknownModel ==
    (model_name \notin MODELS) =>
        /\ ~Did("exam_read") /\ ~Did("agent_start") /\ outFile.state = "absent"
        /\ ~validator
        /\ entry = "cli" => (NoIo /\ pc \in {"main", "exit"})
        /\ Did("config_error") =>
              /\ Before("log_file", "config_error")
              /\ Before("browser_new", "config_error")
              /\ Before("config_error", "error")
        /\ (entry = "call" /\ pc = "done") => Did("config_error")

C10_Witness ==
    model_name \notin MODELS /\ Did("config_error") /\ pc = "done"

\* the final text of the result, when it is a non-empty str
HasText == result.kind = "final" /\ ~falsy(result.text)

\* the final text is a JSON object
ObjectText ==
    /\ HasText
    /\ json_loads(result.text.v).ok
    /\ isinstance(json_loads(result.text.v).val, "dict")

\* options of the response object once a str has been decoded; None when
\* the key is absent or the str is no JSON text
DecodedOptions ==
    LET options == DictGet(ResponseData, W("options")) IN
    IF isinstance(options, "str")
    THEN (IF json_loads(options.v).ok THEN json_loads(options.v).val ELSE None)
    ELSE options

\* strict parsing fails at some step: no final-text accessor, text that is
\* no JSON (or no JSON object), a required field missing, options no
\* sequence after decoding
StrictParseFails ==
    \/ result.kind = "nofinal"
    \/ HasText /\ ~ObjectText
    \/ /\ ObjectText
       /\ \/ ~all_required_in(ResponseData)
          \/ ~isinstance(DecodedOptions, "list")

\* every key of the response is in the record with the response's value,
\* options with its decoded value
Overlaid(rec) ==
    \A i \in 1..Len(ResponseData.v) :
        DictGet(rec, ResponseData.v[i].key)
            = IF ResponseData.v[i].key = W("options")
              THEN DecodedOptions ELSE ResponseData.v[i].val

\* C11: whenever strict parsing fails at any step, no exception leaves
\* validate_question and the returned record equals the original in every
\* field; the response is overlaid only when the text is a JSON object with
\* all seven fields and a sequence for options, and then all of it is.
C11_AllOrNothing ==
    /\ StrictParseFails =>
          /\ path \in {"decode_error", "value_error", "options_undecodable"}
          /\ pc = "gate" => validated = question
          /\ Did("agent_return") /\ ~Did("validation_error")
    /\ path = "updated" =>
          /\ ObjectText /\ ~StrictParseFails
          /\ Overlaid(validated)
    /\ (Returned /\ path # "updated") => validated = question

\* a response without one of the seven fields, and one whose options is no
\* sequence, both left unapplied
C11_Witness ==
    /\ ObjectText
    /\ ~all_required_in(ResponseData)
    /\ ResponseData # Dict(<<>>)
    /\ validated = question
    /\ path = "value_error"
    /\ pc = "gate"

C11_WitnessOptions ==
    /\ ObjectText
    /\ all_required_in(ResponseData)
    /\ ~isinstance(DecodedOptions, "list")
    /\ validated = question
    /\ pc = "gate"

\* the output file as a reader gets it
SavedExam == json_loads(outFile.text).val

\* C12 as stated: a written output file holds exactly one question record,
\* its name is the input exam's name, and the record's id is the requested
\* question_id, whatever response the normalizer accepted.
C12_Claim ==
    outFile.state = "complete" =>
        /\ json_loads(outFile.text).ok
        /\ Len(SavedQuestions) = 1
        /\ DictGet(SavedExam, W("name")) = DictGet(exam_data, W("name"))
        /\ DictGet(SavedQuestions[1], W("id")) = IntV(question_id)

\* what does hold of a written file: one record, the exam's name, and the
\* requested id unless an applied response carried another
C12_SavedShape ==
    outFile.state = "complete" =>
        /\ json_loads(outFile.text).ok
        /\ Len(SavedQuestions) = 1
        /\ SavedQuestions[1] = validated
        /\ DictGet(SavedExam, W("name")) = DictGet(exam_data, W("name"))
        /\ path # "updated" => DictGet(SavedQuestions[1], W("id")) = IntV(question_id)
====
